---- MODULE Spec2Model ----
(***************************************************************************)
(* Model of db_stat/find_similar.py (gemc/simGrid): the steering-card      *)
(* parser, the job estimate, the similarity-key classifier, the grouping   *)
(* and post-filter loops of find_similar, its ranking and reporting loop,  *)
(* and a second invocation over the same rows; and of the queue poller of  *)
(* condor_io (get_owner_batches, print_owner_batches).                     *)
(*                                                                         *)
(* Text is modelled as a sequence of lexemes.  A lexeme is a piece of text *)
(* that the regular expressions of the source treat as a unit: a directive *)
(* literal ("generator:", "genOptions:", "jobs:", ...), one whitespace     *)
(* character, one digit, the path separator "/", or a word without         *)
(* whitespace, '/', ':' or digits.  No lexeme is a concatenation of other  *)
(* lexemes, so two lexeme sequences are equal iff the Python strings are.  *)
(* The Python value None is the one-element sequence <<"None">>.           *)
(***************************************************************************)
EXTENDS Integers, Sequences, FiniteSets, TLC

VARIABLES
    call,                      \* function call under test: arguments
    ret,                       \* its return value
    fpc,                       \* "call" before the function ran, "returned" after
    no_filter_empty_options,   \* args.no_filter_empty_options  (main)
    rows,                      \* cursor.fetchall(): sequence of (user, client_time, scard)
    filter_empty_options,      \* find_similar parameter
    include_single_user_groups,\* find_similar parameter
    pc,                        \* position inside main / find_similar
    ridx,                      \* number of rows consumed by the accumulation loop
    groups,                    \* defaultdict(list) in insertion order: seq of [key, subs]
    skipped_no_generator,
    skipped_empty_options,
    kept_rows,
    gidx,                      \* number of groups consumed by the post-filter loop
    repeating_groups,          \* list of (key, subs, base_owner, foreign_users)
    report,                    \* group blocks written by the reporting loop
    run,                       \* number of the find_similar invocation
    first_run,                 \* what the first invocation reported
    ads,                       \* schedd.query(): the job ads of the owner
    aidx,                      \* number of ads consumed by get_owner_batches
    batches,                   \* dict by ClusterId in insertion order
    qpc,                       \* position inside print_owner_batches
    printed,                   \* rows of the per-batch table
    totals                     \* total_done, total_run, ... of the summary row

vars == <<call, ret, fpc, no_filter_empty_options, rows, filter_empty_options,
          include_single_user_groups, pc, ridx, groups, skipped_no_generator,
          skipped_empty_options, kept_rows, gidx, repeating_groups,
          report, run, first_run, ads, aidx, batches, qpc, printed, totals>>

fnVars == <<call, ret, fpc>>

runVars == <<no_filter_empty_options, rows, filter_empty_options,
             include_single_user_groups, pc, ridx, groups, skipped_no_generator,
             skipped_empty_options, kept_rows, gidx, repeating_groups,
             report, run, first_run>>

repVars == <<report, run, first_run>>

pollVars == <<ads, aidx, batches, qpc, printed, totals>>

----------------------------------------------------------------------------
(* Bounds of the checked input space *)

MaxGenParts == 5      \* path pieces concatenated into a generator argument
MaxJobParts == 4      \* lexemes of a descriptor given to estimate_jobs
MaxCardParts == 4     \* lexemes of a descriptor given to the parser
MaxRows == 3          \* rows returned by the query
MaxAds == 2           \* job ads returned by the schedd

----------------------------------------------------------------------------
(* Python values *)

None == <<"None">>

EmptyStr == <<>>

isinstance_str(v) == v # None

WS == {" ", "\n"}

NL == {"\n"}

Digits == {"0", "1", "2", "3", "4", "5", "6", "7", "8", "9"}

DigitVal(d) ==
    CASE d = "0" -> 0 [] d = "1" -> 1 [] d = "2" -> 2 [] d = "3" -> 3
      [] d = "4" -> 4 [] d = "5" -> 5 [] d = "6" -> 6 [] d = "7" -> 7
      [] d = "8" -> 8 [] d = "9" -> 9

Min(S) == CHOOSE x \in S : \A y \in S : x <= y

Max(S) == CHOOSE x \in S : \A y \in S : x >= y

\* int("007") = 7: decimal value of a digit string
RECURSIVE int(_)
int(ds) ==
    IF ds = <<>> THEN 0
    ELSE 10 * int(SubSeq(ds, 1, Len(ds) - 1)) + DigitVal(ds[Len(ds)])

\* end of the longest run of lexemes of class C that starts at position i
\* (i - 1 when s[i] is not in C): what a greedy  C+  /  C*  consumes
RECURSIVE RunEnd(_, _, _)
RunEnd(s, i, C) ==
    IF i <= Len(s) /\ s[i] \in C THEN RunEnd(s, i + 1, C) ELSE i - 1

\* same for the complement class  [^C]
RECURSIVE RunEndNot(_, _, _)
RunEndNot(s, i, C) ==
    IF i <= Len(s) /\ s[i] \notin C THEN RunEndNot(s, i + 1, C) ELSE i - 1

\* s[i:i+len(lit)] == lit
HasAt(s, i, lit) ==
    /\ i >= 1
    /\ i + Len(lit) - 1 <= Len(s)
    /\ SubSeq(s, i, i + Len(lit) - 1) = lit

startswith(s, lit) == HasAt(s, 1, lit)

\* str.rfind("/") as a 1-based position, 0 when absent
rfind(s, c) ==
    LET P == {p \in 1..Len(s) : s[p] = c} IN IF P = {} THEN 0 ELSE Max(P)

\* str.strip()
strip(s) ==
    LET P == {p \in 1..Len(s) : s[p] \notin WS}
    IN  IF P = {} THEN <<>> ELSE SubSeq(s, Min(P), Max(P))

----------------------------------------------------------------------------
(* parse_generator_and_options *)

\* re.search(r'generator:\s*(\S+)', text): start positions of a match.
\* \s* is greedy and \S+ needs one non-blank character after it.
gen_match_starts(s) ==
    {p \in 1..Len(s) : s[p] = "generator:" /\ RunEnd(s, p + 1, WS) + 1 <= Len(s)}

\* group(1) of the leftmost match
gen_match_group(s) ==
    LET p == Min(gen_match_starts(s))
        q == RunEnd(s, p + 1, WS) + 1
    IN  SubSeq(s, q, RunEndNot(s, q, WS))

OptionDirectives == {"generatorOptions:", "generator_options:", "genOptions:"}

\* positions where ([^\r\n]+) can start after  <directive>\s*  at p: \s* may
\* give back blanks, so any non-newline lexeme up to the first non-blank one
genopt_group_starts(s, p) ==
    {k \in (p + 1)..(RunEnd(s, p + 1, WS) + 1) : k <= Len(s) /\ s[k] \notin NL}

\* re.search(r'(?:generatorOptions|generator_options|genOptions):\s*([^\r\n]+)', text)
genopt_match_starts(s) ==
    {p \in 1..Len(s) : s[p] \in OptionDirectives /\ genopt_group_starts(s, p) # {}}

\* group(1) of the leftmost match; greedy \s* keeps the latest start
genopt_match_group(s) ==
    LET p == Min(genopt_match_starts(s))
        k == Max(genopt_group_starts(s, p))
    IN  SubSeq(s, k, RunEndNot(s, k, NL))

\* re.search(r'(\S+)\s*genOptions:', text): possible ends of (\S+) when the
\* match starts at a
fallback_ends(s, a) ==
    LET r == RunEndNot(s, a, WS)
    IN  {e \in a..r :
            IF e = r THEN HasAt(s, RunEnd(s, r + 1, WS) + 1, <<"genOptions:">>)
                     ELSE s[e + 1] = "genOptions:"}

fallback_starts(s) ==
    {a \in 1..Len(s) : s[a] \notin WS /\ fallback_ends(s, a) # {}}

\* group(1) of the leftmost match; greedy \S+ keeps the latest end
fallback_group(s) ==
    LET a == Min(fallback_starts(s))
    IN  SubSeq(s, a, Max(fallback_ends(s, a)))

\* returns <<generator, gen_options>>
parse_generator_and_options(scard_text) ==
    LET text == IF isinstance_str(scard_text) THEN scard_text ELSE EmptyStr
        generator == IF gen_match_starts(text) # {}
                     THEN gen_match_group(text) ELSE EmptyStr
        gen_options == IF genopt_match_starts(text) # {}
                       THEN strip(genopt_match_group(text)) ELSE EmptyStr
    IN  IF generator = EmptyStr /\ fallback_starts(text) # {}
        THEN <<fallback_group(text), gen_options>>
        ELSE <<generator, gen_options>>

----------------------------------------------------------------------------
(* estimate_jobs *)

\* re.search(r'jobs:\s*(\d+)', text): start positions of a match
jobs_match_starts(s) ==
    {p \in 1..Len(s) :
        /\ s[p] = "jobs:"
        /\ RunEnd(s, p + 1, WS) + 1 <= Len(s)
        /\ s[RunEnd(s, p + 1, WS) + 1] \in Digits}

jobs_match_group(s) ==
    LET p == Min(jobs_match_starts(s))
        q == RunEnd(s, p + 1, WS) + 1
    IN  SubSeq(s, q, RunEnd(s, q, Digits))

PathJobs == 10000

\* estimate_jobs with the path test ahead of the directive test
estimate_jobs_path_first(generator, scard_text) ==
    LET text == IF isinstance_str(scard_text) THEN scard_text ELSE EmptyStr
    IN  IF isinstance_str(generator) /\ startswith(generator, <<"/">>)
        THEN PathJobs
        ELSE IF jobs_match_starts(text) # {} THEN int(jobs_match_group(text))
        ELSE 1

estimate_jobs(generator, scard_text) ==
    LET text == IF isinstance_str(scard_text) THEN scard_text ELSE EmptyStr
    IN  IF jobs_match_starts(text) # {} THEN int(jobs_match_group(text))
        ELSE IF isinstance_str(generator) /\ startswith(generator, <<"/">>)
             THEN PathJobs
             ELSE 1

----------------------------------------------------------------------------
(* get_lund_base, build_similarity_key *)

VolatileClas12 == <<"/", "volatile", "/", "clas12", "/">>

VolatileClas12Users == VolatileClas12 \o <<"users", "/">>

\* re.search(prefix + r'([^/]+)', generator): start positions of a match
lund_match_starts(s, prefix) ==
    {p \in 1..Len(s) :
        /\ HasAt(s, p, prefix)
        /\ p + Len(prefix) <= Len(s)
        /\ s[p + Len(prefix)] # "/"}

\* group(1) of the leftmost match
lund_match_group(s, prefix) ==
    LET q == Min(lund_match_starts(s, prefix)) + Len(prefix)
    IN  SubSeq(s, q, RunEndNot(s, q, {"/"}))

\* get_lund_base without the rejection of "users" as a username
get_lund_base_accepts_users(generator) ==
    IF ~isinstance_str(generator) THEN <<None, None>>
    ELSE IF lund_match_starts(generator, VolatileClas12Users) # {}
    THEN LET username == lund_match_group(generator, VolatileClas12Users)
         IN  <<VolatileClas12 \o username, username>>
    ELSE IF lund_match_starts(generator, VolatileClas12) # {}
    THEN LET username == lund_match_group(generator, VolatileClas12)
         IN  <<VolatileClas12 \o username, username>>
    ELSE <<None, None>>

\* get_lund_base whose base path of the users form keeps the users segment
get_lund_base_keeps_users_segment(generator) ==
    IF ~isinstance_str(generator) THEN <<None, None>>
    ELSE IF lund_match_starts(generator, VolatileClas12Users) # {}
    THEN LET username == lund_match_group(generator, VolatileClas12Users)
         IN  <<VolatileClas12Users \o username, username>>
    ELSE IF lund_match_starts(generator, VolatileClas12) # {}
    THEN LET username == lund_match_group(generator, VolatileClas12)
         IN  IF username = <<"users">> THEN <<None, None>>
             ELSE <<VolatileClas12 \o username, username>>
    ELSE <<None, None>>

\* returns <<base_path, username>> or <<None, None>>
get_lund_base(generator) ==
    IF ~isinstance_str(generator) THEN <<None, None>>
    ELSE IF lund_match_starts(generator, VolatileClas12Users) # {}
    THEN LET username == lund_match_group(generator, VolatileClas12Users)
         IN  <<VolatileClas12 \o username, username>>
    ELSE IF lund_match_starts(generator, VolatileClas12) # {}
    THEN LET username == lund_match_group(generator, VolatileClas12)
         IN  IF username = <<"users">> THEN <<None, None>>
             ELSE <<VolatileClas12 \o username, username>>
    ELSE <<None, None>>

\* path_directory with the test  last_slash >= 0
path_directory_slices_at_zero(generator) ==
    LET last_slash == rfind(generator, "/")
    IN  IF last_slash >= 1 THEN SubSeq(generator, 1, last_slash - 1)
        ELSE generator

\* the directory of a path generator (find_similar.py lines 135-139)
path_directory(generator) ==
    LET last_slash == rfind(generator, "/")
    IN  IF last_slash > 1 THEN SubSeq(generator, 1, last_slash - 1)
        ELSE generator

\* build_similarity_key with the path test ahead of the convention test
build_similarity_key_path_first(generator, gen_options) ==
    IF generator = None \/ generator = EmptyStr THEN <<None, None, FALSE>>
    ELSE LET lb == get_lund_base(generator)
         IN  IF startswith(generator, <<"/">>)
             THEN <<<<"PATH_GEN", path_directory(generator)>>, None, TRUE>>
             ELSE IF lb[1] # None THEN <<<<"LUND_BASE", lb[1]>>, lb[2], TRUE>>
             ELSE <<<<"GEN", generator, gen_options>>, None, FALSE>>

\* build_similarity_key that keeps the options in the PATH_GEN key
build_similarity_key_path_options(generator, gen_options) ==
    IF generator = None \/ generator = EmptyStr THEN <<None, None, FALSE>>
    ELSE LET lb == get_lund_base(generator)
         IN  IF lb[1] # None THEN <<<<"LUND_BASE", lb[1]>>, lb[2], TRUE>>
             ELSE IF startswith(generator, <<"/">>)
             THEN <<<<"PATH_GEN", path_directory(generator), gen_options>>, None, TRUE>>
             ELSE <<<<"GEN", generator, gen_options>>, None, FALSE>>

\* build_similarity_key without the empty-generator test
build_similarity_key_no_empty_test(generator, gen_options) ==
    LET lb == get_lund_base(generator)
    IN  IF lb[1] # None THEN <<<<"LUND_BASE", lb[1]>>, lb[2], TRUE>>
        ELSE IF startswith(generator, <<"/">>)
        THEN <<<<"PATH_GEN", path_directory(generator)>>, None, TRUE>>
        ELSE <<<<"GEN", generator, gen_options>>, None, FALSE>>

\* returns <<key, lund_username, is_path>>
build_similarity_key(generator, gen_options) ==
    IF generator = None \/ generator = EmptyStr THEN <<None, None, FALSE>>
    ELSE LET lb == get_lund_base(generator)
         IN  IF lb[1] # None THEN <<<<"LUND_BASE", lb[1]>>, lb[2], TRUE>>
             ELSE IF startswith(generator, <<"/">>)
             THEN <<<<"PATH_GEN", path_directory(generator)>>, None, TRUE>>
             ELSE <<<<"GEN", generator, gen_options>>, None, FALSE>>

----------------------------------------------------------------------------
(* Input space of the function calls *)

\* all sequences of at most n elements of S
SeqsUpTo(S, n) == UNION {[1..k -> S] : k \in 0..n}

\* the concatenation of a sequence of strings
RECURSIVE Flatten(_)
Flatten(ps) ==
    IF Len(ps) = 0 THEN <<>>
    ELSE Flatten(SubSeq(ps, 1, Len(ps) - 1)) \o ps[Len(ps)]

GenPieces ==
    {<<"/", "volatile", "/", "clas12">>, <<"/", "users">>, <<"/", "alice">>,
     <<"/", "bob">>, <<"/">>, <<"x">>}

OptionArgs == {<<>>, <<"--q">>}

JobLexemes == {"jobs:", " ", "\n", "0", "1", "x"}

JobGenerators == {None, <<>>, <<"clasdis">>, <<"/", "x">>}

CardLexemes ==
    {"generator:", "genOptions:", "generatorOptions:", "generator_options:",
     " ", "\n", "clasdis", "--q"}

\* the calls under test: every function on every argument of its input space
IsFnCall(c) ==
    \/ \E g \in JobGenerators, t \in SeqsUpTo(JobLexemes, MaxJobParts) \cup {None} :
          c = [fn |-> "estimate_jobs", generator |-> g, scard_text |-> t]
    \/ \E ps \in SeqsUpTo(GenPieces, MaxGenParts), o \in OptionArgs :
          c = [fn |-> "build_similarity_key", generator |-> Flatten(ps),
               gen_options |-> o]
    \/ \E o \in OptionArgs :
          c = [fn |-> "build_similarity_key", generator |-> None,
               gen_options |-> o]
    \/ \E t \in SeqsUpTo(CardLexemes, MaxCardParts) \cup {None} :
          c = [fn |-> "parse_generator_and_options", scard_text |-> t]

----------------------------------------------------------------------------
(* Specification of the function calls *)

\* the queue poller is not running
PollIdle ==
    /\ ads = <<>>
    /\ aidx = 0
    /\ batches = <<>>
    /\ qpc = "idle"
    /\ printed = <<>>
    /\ totals = [done |-> 0, run |-> 0, idle |-> 0, hold |-> 0, jobs |-> 0]

RunIdle ==
    /\ no_filter_empty_options = FALSE
    /\ rows = <<>>
    /\ filter_empty_options = TRUE
    /\ include_single_user_groups = FALSE
    /\ pc = "idle"
    /\ ridx = 0
    /\ groups = <<>>
    /\ skipped_no_generator = 0
    /\ skipped_empty_options = 0
    /\ kept_rows = 0
    /\ gidx = 0
    /\ repeating_groups = <<>>
    /\ report = <<>>
    /\ run = 1
    /\ first_run = None

InitFn ==
    /\ IsFnCall(call)
    /\ ret = None
    /\ fpc = "call"
    /\ RunIdle
    /\ PollIdle

EstimateJobs ==
    /\ fpc = "call"
    /\ call.fn = "estimate_jobs"
    /\ ret' = estimate_jobs(call.generator, call.scard_text)
    /\ fpc' = "returned"
    /\ UNCHANGED <<call, runVars, pollVars>>

BuildSimilarityKey ==
    /\ fpc = "call"
    /\ call.fn = "build_similarity_key"
    /\ ret' = build_similarity_key(call.generator, call.gen_options)
    /\ fpc' = "returned"
    /\ UNCHANGED <<call, runVars, pollVars>>

ParseGeneratorAndOptions ==
    /\ fpc = "call"
    /\ call.fn = "parse_generator_and_options"
    /\ ret' = parse_generator_and_options(call.scard_text)
    /\ fpc' = "returned"
    /\ UNCHANGED <<call, runVars, pollVars>>

NextFn == EstimateJobs \/ BuildSimilarityKey \/ ParseGeneratorAndOptions

SpecFn == InitFn /\ [][NextFn]_vars

----------------------------------------------------------------------------
(* main and find_similar: the rows of the query, the accumulation loop and
   the post-filter loop *)

LundFile(name, file) == VolatileClas12 \o name \o <<"/", file>>

\* steering cards stored in the submissions table
CardNoGenerator == <<"generatorOptions:", " ", "--q">>

CardGenNoOptions == <<"generator:", " ", "clasdis">>

CardGenOptions == <<"clasdis", "genOptions:", " ", "--q">>

CardPath == <<"generator:", " ", "/", "x", "/", "f">>

CardPathOptions ==
    <<"generator:", " ", "/", "x", "/", "g", "\n", "genOptions:", " ", "--q",
      "\n", "jobs:", " ", "2">>

CardLundUsers == <<"generator:", " ">> \o LundFile(<<"users", "/", "alice">>, "f")

CardLundPlain ==
    <<"generator:", " ">> \o LundFile(<<"alice">>, "g")
        \o <<"\n", "genOptions:", " ", "--q">>

Alice == <<"alice">>

Bob == <<"bob">>

\* a datetime value of the client_time column
datetime(n) == <<"datetime", n>>

Record(u, c) == [user |-> u, client_time |-> datetime(1), scard_text |-> c]

\* the rows the submissions table may hold: (user, client_time, scard)
Records ==
    {Record(Alice, None), Record(Bob, CardNoGenerator),
     Record(Alice, CardGenNoOptions),
     Record(Alice, CardGenOptions), Record(Bob, CardGenOptions),
     Record(Alice, CardPath), Record(Bob, CardPathOptions),
     Record(Alice, CardLundUsers), Record(Bob, CardLundPlain)}

FnIdle ==
    /\ call = [fn |-> "none"]
    /\ ret = None
    /\ fpc = "idle"

Init ==
    /\ FnIdle
    /\ rows \in SeqsUpTo(Records, MaxRows)
    /\ no_filter_empty_options \in BOOLEAN
    /\ include_single_user_groups \in BOOLEAN
    /\ filter_empty_options = TRUE
    /\ pc = "main"
    /\ ridx = 0
    /\ groups = <<>>
    /\ skipped_no_generator = 0
    /\ skipped_empty_options = 0
    /\ kept_rows = 0
    /\ gidx = 0
    /\ repeating_groups = <<>>
    /\ report = <<>>
    /\ run = 1
    /\ first_run = None
    /\ PollIdle

\* main: the flag is the negation of --no_filter_empty_options
Main ==
    /\ pc = "main"
    /\ filter_empty_options' = ~no_filter_empty_options
    /\ pc' = "query"
    /\ UNCHANGED <<fnVars, pollVars, repVars, no_filter_empty_options, rows,
                   include_single_user_groups, ridx, groups,
                   skipped_no_generator, skipped_empty_options, kept_rows,
                   gidx, repeating_groups>>

\* find_similar whose groups dict outlives the invocation
FindSimilarQuery_shared_groups ==
    /\ pc = "query"
    /\ IF Len(rows) = 0 THEN pc' = "done" ELSE pc' = "accumulate"
    /\ skipped_no_generator' = 0
    /\ skipped_empty_options' = 0
    /\ kept_rows' = 0
    /\ ridx' = 0
    /\ UNCHANGED <<fnVars, pollVars, repVars, no_filter_empty_options, rows,
                   filter_empty_options, include_single_user_groups, groups,
                   gidx, repeating_groups>>

\* find_similar up to the accumulation loop: no rows, no report
FindSimilarQuery ==
    /\ pc = "query"
    /\ IF Len(rows) = 0 THEN pc' = "done" ELSE pc' = "accumulate"
    /\ skipped_no_generator' = 0
    /\ skipped_empty_options' = 0
    /\ kept_rows' = 0
    /\ groups' = <<>>
    /\ ridx' = 0
    /\ UNCHANGED <<fnVars, pollVars, repVars, no_filter_empty_options, rows, filter_empty_options,
                   include_single_user_groups, gidx, repeating_groups>>

\* position of key in the dict, 0 when absent
key_index(gs, key) ==
    LET P == {i \in 1..Len(gs) : gs[i].key = key}
    IN  IF P = {} THEN 0 ELSE Min(P)

\* groups[key].append(sub) that never finds the key
groups_append_always_new(gs, key, sub) ==
    Append(gs, [key |-> key, subs |-> <<sub>>])

\* groups[key] = [sub] in place of the append
groups_append_replaces(gs, key, sub) ==
    LET i == key_index(gs, key)
    IN  IF i = 0 THEN Append(gs, [key |-> key, subs |-> <<sub>>])
        ELSE [gs EXCEPT ![i].subs = <<sub>>]

\* groups[key].append(sub) on a defaultdict(list)
groups_append(gs, key, sub) ==
    LET i == key_index(gs, key)
    IN  IF i = 0 THEN Append(gs, [key |-> key, subs |-> <<sub>>])
        ELSE [gs EXCEPT ![i].subs = Append(@, sub)]

\* row_outcome with the empty-options filter not limited to bare generators
row_outcome_filters_paths(key, is_path, gen_options, filter_empty) ==
    IF key = None THEN "no_generator"
    ELSE IF filter_empty /\ gen_options = EmptyStr THEN "empty_options"
    ELSE "kept"

\* the two skip tests of the loop body (find_similar.py lines 195-202)
row_outcome(key, is_path, gen_options, filter_empty) ==
    IF key = None THEN "no_generator"
    ELSE IF filter_empty /\ ~is_path /\ gen_options = EmptyStr
    THEN "empty_options"
    ELSE "kept"

\* one iteration of  for user, client_time, scard_text in rows
AccumulateRow ==
    /\ pc = "accumulate"
    /\ ridx < Len(rows)
    /\ LET row == rows[ridx + 1]
           parsed == parse_generator_and_options(row.scard_text)
           generator == parsed[1]
           gen_options == parsed[2]
           k == build_similarity_key(generator, gen_options)
           key == k[1]
           lund_username == k[2]
           is_path == k[3]
           outcome == row_outcome(key, is_path, gen_options, filter_empty_options)
       IN  CASE outcome = "no_generator" ->
                /\ skipped_no_generator' = skipped_no_generator + 1
                /\ UNCHANGED <<skipped_empty_options, groups, kept_rows>>
             [] outcome = "empty_options" ->
                /\ skipped_empty_options' = skipped_empty_options + 1
                /\ UNCHANGED <<skipped_no_generator, groups, kept_rows>>
             [] outcome = "kept" ->
                /\ groups' = groups_append(groups, key,
                       [user |-> row.user,
                        client_time |-> row.client_time,
                        jobs |-> estimate_jobs(generator, row.scard_text),
                        generator |-> generator,
                        gen_options |-> gen_options,
                        lund_username |-> lund_username])
                /\ kept_rows' = kept_rows + 1
                /\ UNCHANGED <<skipped_no_generator, skipped_empty_options>>
    /\ ridx' = ridx + 1
    /\ UNCHANGED <<fnVars, pollVars, repVars, no_filter_empty_options, rows, filter_empty_options,
                   include_single_user_groups, pc, gidx, repeating_groups>>

\* the accumulation loop is exhausted: repeating_groups = []
StartPostFilter ==
    /\ pc = "accumulate"
    /\ ridx = Len(rows)
    /\ repeating_groups' = <<>>
    /\ gidx' = 0
    /\ pc' = "postfilter"
    /\ UNCHANGED <<fnVars, pollVars, repVars, no_filter_empty_options, rows, filter_empty_options,
                   include_single_user_groups, ridx, groups,
                   skipped_no_generator, skipped_empty_options, kept_rows>>

users_set(subs) == {subs[i].user : i \in 1..Len(subs)}

\* re.match(r'/volatile/clas12/([^/]+)', base_path): group(1) or None
base_owner_of(base_path) ==
    IF HasAt(base_path, 1, VolatileClas12)
       /\ Len(base_path) > Len(VolatileClas12)
       /\ base_path[Len(VolatileClas12) + 1] # "/"
    THEN SubSeq(base_path, Len(VolatileClas12) + 1,
                RunEndNot(base_path, Len(VolatileClas12) + 1, {"/"}))
    ELSE None

foreign_users_of(subs, base_owner) == {u \in users_set(subs) : u # base_owner}

\* post_filter with the LUND_BASE branch also under the two-submission rule
post_filter_lund_needs_two(key, subs, include_single) ==
    IF key[1] = "LUND_BASE"
    THEN LET base_owner == base_owner_of(key[2])
             foreign_users == foreign_users_of(subs, base_owner)
         IN  <<foreign_users # {} /\ Len(subs) >= 2, base_owner, foreign_users>>
    ELSE IF Len(subs) < 2 THEN <<FALSE, None, None>>
    ELSE IF ~include_single /\ Cardinality(users_set(subs)) < 2
    THEN <<FALSE, None, None>>
    ELSE <<TRUE, None, None>>

\* post_filter that never consults include_single_user_groups
post_filter_ignores_flag(key, subs, include_single) ==
    IF key[1] = "LUND_BASE"
    THEN LET base_owner == base_owner_of(key[2])
             foreign_users == foreign_users_of(subs, base_owner)
         IN  <<foreign_users # {}, base_owner, foreign_users>>
    ELSE IF Len(subs) < 2 THEN <<FALSE, None, None>>
    ELSE IF Cardinality(users_set(subs)) < 2
    THEN <<FALSE, None, None>>
    ELSE <<TRUE, None, None>>

\* the post-filter decision for one group: <<keep, base_owner, foreign_users>>
post_filter(key, subs, include_single) ==
    IF key[1] = "LUND_BASE"
    THEN LET base_owner == base_owner_of(key[2])
             foreign_users == foreign_users_of(subs, base_owner)
         IN  <<foreign_users # {}, base_owner, foreign_users>>
    ELSE IF Len(subs) < 2 THEN <<FALSE, None, None>>
    ELSE IF ~include_single /\ Cardinality(users_set(subs)) < 2
    THEN <<FALSE, None, None>>
    ELSE <<TRUE, None, None>>

\* one iteration of  for key, subs in groups.items()
PostFilterGroup ==
    /\ pc = "postfilter"
    /\ gidx < Len(groups)
    /\ LET g == groups[gidx + 1]
           r == post_filter(g.key, g.subs, include_single_user_groups)
       IN  repeating_groups' =
               IF r[1]
               THEN Append(repeating_groups,
                           [key |-> g.key, subs |-> g.subs,
                            base_owner |-> r[2], foreign_users |-> r[3]])
               ELSE repeating_groups
    /\ gidx' = gidx + 1
    /\ UNCHANGED <<fnVars, pollVars, repVars, no_filter_empty_options, rows, filter_empty_options,
                   include_single_user_groups, pc, ridx, groups,
                   skipped_no_generator, skipped_empty_options, kept_rows>>

\* the post-filter loop is exhausted
EndPostFilter ==
    /\ pc = "postfilter"
    /\ gidx = Len(groups)
    /\ pc' = "filtered"
    /\ UNCHANGED <<fnVars, pollVars, repVars, no_filter_empty_options, rows, filter_empty_options,
                   include_single_user_groups, ridx, groups,
                   skipped_no_generator, skipped_empty_options, kept_rows,
                   gidx, repeating_groups>>

Next ==
    \/ Main
    \/ FindSimilarQuery
    \/ AccumulateRow
    \/ StartPostFilter
    \/ PostFilterGroup
    \/ EndPostFilter

Spec == Init /\ [][Next]_vars

----------------------------------------------------------------------------
(* find_similar after the post-filter loop: the empty report, the ranking
   and the reporting loop *)

CardLundBob == <<"generator:", " ">> \o LundFile(Bob, "f")

CardLundAliceJobs ==
    <<"generator:", " ">> \o LundFile(Alice, "f") \o <<"\n", "jobs:", " ", "2">>

\* a file under users/x below alice's directory: the owner is x
CardLundNested ==
    <<"generator:", " ">> \o VolatileClas12 \o <<"alice">>
        \o LundFile(<<"users", "/", "x">>, "g") \o <<"\n", "jobs:", " ", "1">>

RecordAt(u, t, c) == [user |-> u, client_time |-> datetime(t), scard_text |-> c]

\* rows with several LUND bases, different job estimates and two dates
ReportRecords ==
    {RecordAt(Bob, 1, CardLundPlain), RecordAt(Bob, 2, CardLundAliceJobs),
     RecordAt(Alice, 2, CardLundUsers), RecordAt(Alice, 1, CardLundBob),
     RecordAt(Alice, 2, CardLundNested),
     RecordAt(Alice, 1, CardPath), RecordAt(Bob, 2, CardPathOptions),
     RecordAt(Alice, 2, CardGenOptions), RecordAt(Bob, 1, CardGenOptions)}

InitReport ==
    /\ FnIdle
    /\ rows \in SeqsUpTo(ReportRecords, MaxRows)
    /\ no_filter_empty_options = FALSE
    /\ include_single_user_groups \in BOOLEAN
    /\ filter_empty_options = TRUE
    /\ pc = "main"
    /\ ridx = 0
    /\ groups = <<>>
    /\ skipped_no_generator = 0
    /\ skipped_empty_options = 0
    /\ kept_rows = 0
    /\ gidx = 0
    /\ repeating_groups = <<>>
    /\ report = <<>>
    /\ run = 1
    /\ first_run = None
    /\ PollIdle

\* if not repeating_groups: return
NoRepeatingGroups ==
    /\ pc = "filtered"
    /\ repeating_groups = <<>>
    /\ pc' = "done"
    /\ UNCHANGED <<fnVars, pollVars, repVars, no_filter_empty_options, rows, filter_empty_options,
                   include_single_user_groups, ridx, groups,
                   skipped_no_generator, skipped_empty_options, kept_rows,
                   gidx, repeating_groups>>

\* sum(s["jobs"] for s in subs)
RECURSIVE sum_jobs(_)
sum_jobs(subs) ==
    IF subs = <<>> THEN 0 ELSE subs[1].jobs + sum_jobs(Tail(subs))

group_total_jobs(item) == sum_jobs(item.subs)

\* an insertion that puts the item before the items of equal total
insert_reverse_ties_first(sorted, item) ==
    LET later == {i \in 1..Len(sorted) :
                     group_total_jobs(sorted[i]) <= group_total_jobs(item)}
        k == IF later = {} THEN Len(sorted) + 1 ELSE Min(later)
    IN  SubSeq(sorted, 1, k - 1) \o <<item>> \o SubSeq(sorted, k, Len(sorted))

\* the place of one more item in a list sorted by key, reverse=True: list.sort
\* is stable, the item goes after the items whose total is not smaller
insert_reverse(sorted, item) ==
    LET later == {i \in 1..Len(sorted) :
                     group_total_jobs(sorted[i]) < group_total_jobs(item)}
        k == IF later = {} THEN Len(sorted) + 1 ELSE Min(later)
    IN  SubSeq(sorted, 1, k - 1) \o <<item>> \o SubSeq(sorted, k, Len(sorted))

\* items[1..n] after list.sort(key=group_total_jobs, reverse=True)
RECURSIVE sort_reverse(_, _)
sort_reverse(items, n) ==
    IF n = 0 THEN <<>>
    ELSE insert_reverse(sort_reverse(items, n - 1), items[n])

\* repeating_groups.sort(key=group_total_jobs, reverse=True)
SortGroups ==
    /\ pc = "filtered"
    /\ repeating_groups # <<>>
    /\ repeating_groups' = sort_reverse(repeating_groups, Len(repeating_groups))
    /\ pc' = "report"
    /\ UNCHANGED <<fnVars, pollVars, repVars, no_filter_empty_options, rows, filter_empty_options,
                   include_single_user_groups, ridx, groups,
                   skipped_no_generator, skipped_empty_options, kept_rows,
                   gidx>>

\* the order of datetime values
before(a, b) == a[2] < b[2]

\* min(times) if times else None
min_time(subs) ==
    IF subs = <<>> THEN None
    ELSE LET times == {subs[i].client_time : i \in 1..Len(subs)}
         IN  CHOOSE t \in times : \A u \in times : ~before(u, t)

\* max(times) if times else None
max_time(subs) ==
    IF subs = <<>> THEN None
    ELSE LET times == {subs[i].client_time : i \in 1..Len(subs)}
         IN  CHOOSE t \in times : \A u \in times : ~before(t, u)

\* the user names in str order
UsersAscending == <<Alice, Bob>>

\* sorted(S) for a collection of user names
sorted_users(S) == SelectSeq(UsersAscending, LAMBDA u : u \in S)

\* position of user u in the per_user dict, 0 when absent
per_user_index(per_user, u) ==
    LET P == {i \in 1..Len(per_user) : per_user[i].user = u}
    IN  IF P = {} THEN 0 ELSE Min(P)

\* the loop body over one submission that counts it without adding its jobs
per_user_add_counts_only(per_user, s) ==
    LET i == per_user_index(per_user, s.user)
        d == IF i = 0
             THEN Append(per_user, [user |-> s.user, subs |-> 0, jobs |-> 0,
                                    min_t |-> None, max_t |-> None])
             ELSE per_user
        j == IF i = 0 THEN Len(d) ELSE i
        t == s.client_time
    IN  [d EXCEPT ![j] =
            [user |-> d[j].user,
             subs |-> d[j].subs + 1,
             jobs |-> d[j].jobs,
             min_t |-> IF d[j].min_t = None \/ before(t, d[j].min_t)
                       THEN t ELSE d[j].min_t,
             max_t |-> IF d[j].max_t = None \/ before(d[j].max_t, t)
                       THEN t ELSE d[j].max_t]]

\* the loop body over one submission: per_user is a defaultdict whose
\* entries start as {"subs": 0, "jobs": 0, "min_t": None, "max_t": None}
per_user_add(per_user, s) ==
    LET i == per_user_index(per_user, s.user)
        d == IF i = 0
             THEN Append(per_user, [user |-> s.user, subs |-> 0, jobs |-> 0,
                                    min_t |-> None, max_t |-> None])
             ELSE per_user
        j == IF i = 0 THEN Len(d) ELSE i
        t == s.client_time
    IN  [d EXCEPT ![j] =
            [user |-> d[j].user,
             subs |-> d[j].subs + 1,
             jobs |-> d[j].jobs + s.jobs,
             min_t |-> IF d[j].min_t = None \/ before(t, d[j].min_t)
                       THEN t ELSE d[j].min_t,
             max_t |-> IF d[j].max_t = None \/ before(d[j].max_t, t)
                       THEN t ELSE d[j].max_t]]

\* per_user after  for s in subs  over subs[1..n]
RECURSIVE per_user_of(_, _)
per_user_of(subs, n) ==
    IF n = 0 THEN <<>> ELSE per_user_add(per_user_of(subs, n - 1), subs[n])

\* what one iteration of the reporting loop computes for a group
group_block(idx, item) ==
    LET unique_users == sorted_users(users_set(item.subs))
    IN  [idx |-> idx,
         key |-> item.key,
         total_submissions |-> Len(item.subs),
         total_jobs |-> sum_jobs(item.subs),
         unique_users |-> unique_users,
         min_t |-> min_time(item.subs),
         max_t |-> max_time(item.subs),
         per_user |-> per_user_of(item.subs, Len(item.subs)),
         base_owner |-> item.base_owner,
         foreign_list |->
             IF item.key[1] = "LUND_BASE"
             THEN SelectSeq(unique_users, LAMBDA u : u # item.base_owner)
             ELSE None]

\* one iteration of  for idx, (key, subs, base_owner, foreign_users) in
\* enumerate(repeating_groups, start=1)
AggregateGroup ==
    /\ pc = "report"
    /\ Len(report) < Len(repeating_groups)
    /\ report' = Append(report, group_block(Len(report) + 1,
                                            repeating_groups[Len(report) + 1]))
    /\ UNCHANGED <<fnVars, pollVars, run, first_run, no_filter_empty_options, rows, filter_empty_options,
                   include_single_user_groups, ridx, groups,
                   skipped_no_generator, skipped_empty_options, kept_rows,
                   gidx, pc, repeating_groups>>

\* the reporting loop is exhausted: "End of report."
EndReport ==
    /\ pc = "report"
    /\ Len(report) = Len(repeating_groups)
    /\ pc' = "done"
    /\ UNCHANGED <<fnVars, pollVars, repVars, no_filter_empty_options, rows, filter_empty_options,
                   include_single_user_groups, ridx, groups,
                   skipped_no_generator, skipped_empty_options, kept_rows,
                   gidx, repeating_groups>>

NextReport ==
    \/ Next
    \/ NoRepeatingGroups
    \/ SortGroups
    \/ AggregateGroup
    \/ EndReport

SpecReport == InitReport /\ [][NextReport]_vars

----------------------------------------------------------------------------
(* a second invocation of find_similar in the same process, over the same
   rows and with the same flags *)

\* the caller keeps what the first invocation reported and calls again; the
\* memory of the first invocation is left as it is
FindSimilarAgain ==
    /\ pc = "done"
    /\ run = 1
    /\ first_run' = [repeating_groups |-> repeating_groups, report |-> report]
    /\ report' = <<>>
    /\ run' = 2
    /\ pc' = "query"
    /\ UNCHANGED <<fnVars, pollVars, no_filter_empty_options, rows, filter_empty_options,
                   include_single_user_groups, ridx, groups,
                   skipped_no_generator, skipped_empty_options, kept_rows,
                   gidx, repeating_groups>>

NextTwice == NextReport \/ FindSimilarAgain

SpecTwice == InitReport /\ [][NextTwice]_vars

----------------------------------------------------------------------------
(* condor_io: get_owner_batches (htcondor_utils.py) and print_owner_batches
   (run_query.py).  An attribute of a job ad is an integer num(n) or None. *)

num(n) == <<"int", n>>

val(v) == v[2]

\* JobStatus codes 0..7 of HTCondor
JobStatusCodes == 0..7

\* the batch sizes the ads of the model may carry
SubmitProcs == {None, num(1), num(3)}

\* the QDate of the jobs of a cluster: cluster 2 was submitted first
QDateOf(c) == IF c = None THEN None ELSE num(3 - val(c))

ClusterIds == {num(1), num(2)}

\* the ads the schedd may return, but for the ProcId
AdKinds ==
    [ClusterId : ClusterIds, JobStatus : {num(c) : c \in JobStatusCodes},
     TotalSubmitProcs : SubmitProcs]
        \cup {[ClusterId |-> None, JobStatus |-> num(2), TotalSubmitProcs |-> num(1)]}

\* the i-th ad of the answer: jobs are listed with increasing ProcId
Ad(k, i) ==
    [ClusterId |-> k.ClusterId, ProcId |-> num(i - 1), JobStatus |-> k.JobStatus,
     QDate |-> QDateOf(k.ClusterId), TotalSubmitProcs |-> k.TotalSubmitProcs]

InitPoll ==
    /\ \E ks \in SeqsUpTo(AdKinds, MaxAds) :
          ads = [i \in 1..Len(ks) |-> Ad(ks[i], i)]
    /\ aidx = 0
    /\ batches = <<>>
    /\ qpc = "ads"
    /\ printed = <<>>
    /\ totals = [done |-> 0, run |-> 0, idle |-> 0, hold |-> 0, jobs |-> 0]
    /\ FnIdle
    /\ RunIdle

\* position of cluster_id in the batches dict, 0 when absent
batch_index(bs, cluster_id) ==
    LET P == {i \in 1..Len(bs) : bs[i].cluster_id = cluster_id}
    IN  IF P = {} THEN 0 ELSE Min(P)

\* bucket_of that counts REMOVED and COMPLETED ads as OTHER
bucket_of_counts_finished(status_code) ==
    IF status_code = num(2) THEN "RUN"
    ELSE IF status_code = num(1) THEN "IDLE"
    ELSE IF status_code = num(5) THEN "HOLD"
    ELSE IF status_code \in {num(0), num(6), num(7), num(3), num(4)} THEN "OTHER"
    ELSE "pass"

\* the counter a status code increments (htcondor_utils.py lines 108-121)
bucket_of(status_code) ==
    IF status_code = num(2) THEN "RUN"
    ELSE IF status_code = num(1) THEN "IDLE"
    ELSE IF status_code = num(5) THEN "HOLD"
    ELSE IF status_code \in {num(0), num(6), num(7)} THEN "OTHER"
    ELSE "pass"

\* the batch record after the body of  for ad in ads  (lines 88-121)
batch_update(b0, ad) ==
    LET qdate == ad.QDate
        proc_id == ad.ProcId
        total_submit_procs == ad.TotalSubmitProcs
        submitted_epoch ==
            IF qdate # None
               /\ (b0.submitted_epoch = None \/ val(qdate) < val(b0.submitted_epoch))
            THEN qdate ELSE b0.submitted_epoch
        total ==
            IF b0.total_submit_procs = None /\ total_submit_procs # None
            THEN num(val(total_submit_procs)) ELSE b0.total_submit_procs
        min_proc ==
            IF proc_id # None
               /\ (b0.min_proc = None \/ val(proc_id) < val(b0.min_proc))
            THEN proc_id ELSE b0.min_proc
        max_proc ==
            IF proc_id # None
               /\ (b0.max_proc = None \/ val(proc_id) > val(b0.max_proc))
            THEN proc_id ELSE b0.max_proc
        bucket == bucket_of(ad.JobStatus)
    IN  [cluster_id |-> b0.cluster_id,
         submitted_epoch |-> submitted_epoch,
         total_submit_procs |-> total,
         counts |-> IF bucket = "pass" THEN b0.counts
                    ELSE [b0.counts EXCEPT ![bucket] = @ + 1],
         min_proc |-> min_proc,
         max_proc |-> max_proc]

\* one iteration of  for ad in ads
ProcessAd ==
    /\ qpc = "ads"
    /\ aidx < Len(ads)
    /\ LET ad == ads[aidx + 1]
           cluster_id == ad.ClusterId
           i == batch_index(batches, cluster_id)
           created ==
               [cluster_id |-> cluster_id,
                submitted_epoch |-> ad.QDate,
                total_submit_procs |->
                    IF ad.TotalSubmitProcs # None
                    THEN num(val(ad.TotalSubmitProcs)) ELSE None,
                counts |-> [k \in {"RUN", "IDLE", "HOLD", "OTHER"} |-> 0],
                min_proc |-> ad.ProcId,
                max_proc |-> ad.ProcId]
       IN  batches' =
               IF cluster_id = None THEN batches
               ELSE IF i = 0 THEN Append(batches, batch_update(created, ad))
               ELSE [batches EXCEPT ![i] = batch_update(@, ad)]
    /\ aidx' = aidx + 1
    /\ UNCHANGED <<fnVars, runVars, ads, qpc, printed, totals>>

\* get_owner_batches returns an empty dict: "(no jobs found ...)"
NoBatches ==
    /\ qpc = "ads"
    /\ aidx = Len(ads)
    /\ batches = <<>>
    /\ qpc' = "done"
    /\ UNCHANGED <<fnVars, runVars, ads, aidx, batches, printed, totals>>

\* get_owner_batches returns batches: the totals start at 0
StartTable ==
    /\ qpc = "ads"
    /\ aidx = Len(ads)
    /\ batches # <<>>
    /\ totals' = [done |-> 0, run |-> 0, idle |-> 0, hold |-> 0, jobs |-> 0]
    /\ printed' = <<>>
    /\ qpc' = "table"
    /\ UNCHANGED <<fnVars, runVars, ads, aidx, batches>>

\* the largest signed 64-bit integer, the sort key of a missing submit time
MaxInt64 == 2^63 - 1

\* sort_key(item): (submitted or 2**63 - 1, cluster_id)
sort_key(b) ==
    <<IF b.submitted_epoch # None THEN val(b.submitted_epoch) ELSE MaxInt64,
      val(b.cluster_id)>>

\* the order of Python tuples of two integers
tuple_lt(x, y) == x[1] < y[1] \/ (x[1] = y[1] /\ x[2] < y[2])

\* the place of one more batch in a list sorted by sort_key
insert_sorted(sorted, b) ==
    LET later == {i \in 1..Len(sorted) : tuple_lt(sort_key(b), sort_key(sorted[i]))}
        k == IF later = {} THEN Len(sorted) + 1 ELSE Min(later)
    IN  SubSeq(sorted, 1, k - 1) \o <<b>> \o SubSeq(sorted, k, Len(sorted))

\* sorted(batches.items(), key=sort_key) over the first n batches
RECURSIVE sorted_batches(_, _)
sorted_batches(bs, n) ==
    IF n = 0 THEN <<>> ELSE insert_sorted(sorted_batches(bs, n - 1), bs[n])

\* the columns of the row of one batch (run_query.py lines 44-67)
table_row(b) ==
    LET run_ == b.counts["RUN"]
        idle == b.counts["IDLE"]
        hold == b.counts["HOLD"]
        other == b.counts["OTHER"]
        total == IF b.total_submit_procs = None
                 THEN run_ + idle + hold + other
                 ELSE val(b.total_submit_procs)
        done == total - run_ - idle - hold - other
    IN  [cluster_id |-> b.cluster_id,
         job_ids |-> IF b.min_proc = None \/ b.max_proc = None THEN <<>>
                     ELSE IF b.min_proc = b.max_proc THEN <<b.min_proc>>
                     ELSE <<b.min_proc, b.max_proc>>,
         done |-> IF done < 0 THEN 0 ELSE done,
         run |-> run_, idle |-> idle, hold |-> hold, total |-> total]

\* one iteration of  for cluster_id, b in sorted(batches.items(), key=sort_key)
PrintBatch ==
    /\ qpc = "table"
    /\ Len(printed) < Len(batches)
    /\ LET b == sorted_batches(batches, Len(batches))[Len(printed) + 1]
           row == table_row(b)
       IN  /\ printed' = Append(printed, row)
           /\ totals' = [done |-> totals.done + row.done,
                         run |-> totals.run + row.run,
                         idle |-> totals.idle + row.idle,
                         hold |-> totals.hold + row.hold,
                         jobs |-> totals.jobs + row.total]
    /\ UNCHANGED <<fnVars, runVars, ads, aidx, batches, qpc>>

\* the loop is exhausted: the summary row is printed
PrintSummary ==
    /\ qpc = "table"
    /\ Len(printed) = Len(batches)
    /\ qpc' = "done"
    /\ UNCHANGED <<fnVars, runVars, ads, aidx, batches, printed, totals>>

NextPoll ==
    \/ ProcessAd
    \/ NoBatches
    \/ StartTable
    \/ PrintBatch
    \/ PrintSummary

SpecPoll == InitPoll /\ [][NextPoll]_vars

----------------------------------------------------------------------------
(* Properties of estimate_jobs *)

Returned(fn) == fpc = "returned" /\ call.fn = fn

\* t[p] is a "jobs:" directive whose number occupies t[q..e]
IsJobsDirective(t, p, q, e) ==
    /\ t[p] = "jobs:"
    /\ p < q /\ q <= e /\ e <= Len(t)
    /\ \A k \in (p + 1)..(q - 1) : t[k] \in WS
    /\ \A k \in q..e : t[k] \in Digits
    /\ (e < Len(t) => t[e + 1] \notin Digits)

JobsDirectives(t) ==
    {d \in (1..Len(t)) \X (1..Len(t)) \X (1..Len(t)) :
        IsJobsDirective(t, d[1], d[2], d[3])}

RECURSIVE Pow10(_)
Pow10(n) == IF n = 0 THEN 1 ELSE 10 * Pow10(n - 1)

RECURSIVE Decimal(_, _, _)
Decimal(t, q, e) ==
    IF q > e THEN 0
    ELSE DigitVal(t[q]) * Pow10(e - q) + Decimal(t, q + 1, e)

\* the number of the first job-count directive of the descriptor
DirectiveNumber(t) ==
    LET d == CHOOSE d \in JobsDirectives(t) :
                 \A d2 \in JobsDirectives(t) : d[1] <= d2[1]
    IN  Decimal(t, d[2], d[3])

\* C1: for every descriptor (absent, non-text, or carrying any `jobs: N`
\* directive) and every generator, estimate_jobs returns an integer >= 1.
C1_EstimateAtLeastOne ==
    Returned("estimate_jobs") => ret \in Nat /\ ret >= 1

\* C2: the estimate is the number of the explicit job-count directive when the
\* descriptor has one, whatever the generator; otherwise 10000 when the
\* generator starts with "/"; otherwise 1.
C2_EstimatePriority ==
    Returned("estimate_jobs") =>
        IF JobsDirectives(call.scard_text) # {}
        THEN ret = DirectiveNumber(call.scard_text)
        ELSE IF Len(call.generator) >= 1 /\ call.generator[1] = "/"
        THEN ret = 10000
        ELSE ret = 1

\* a path generator with an explicit directive: the directive wins
C2_Witness ==
    /\ Returned("estimate_jobs")
    /\ call.generator = <<"/", "x">>
    /\ call.scard_text = <<"jobs:", " ", "1", "0">>
    /\ ret = 10

----------------------------------------------------------------------------
(* Properties of the key classifier *)

\* g begins with  prefix <name>  where <name> is one whole path segment
StartsWithSegment(g, prefix, name) ==
    /\ name # <<>>
    /\ \A k \in 1..Len(name) : name[k] # "/"
    /\ HasAt(g, 1, prefix \o name)
    /\ (Len(g) > Len(prefix) + Len(name) => g[Len(prefix) + Len(name) + 1] = "/")

\* the path segment of g that starts at position q
SegmentAt(g, q) ==
    CHOOSE name \in {SubSeq(g, q, e) : e \in q..Len(g)} :
        /\ \A k \in 1..Len(name) : name[k] # "/"
        /\ (q + Len(name) <= Len(g) => g[q + Len(name)] = "/")

\* positions of g where /volatile/clas12/users/<segment> occurs
UsersFormAt(g) ==
    {p \in 1..Len(g) : HasAt(g, p, VolatileClas12Users)
                        /\ p + 7 <= Len(g) /\ g[p + 7] # "/"}

\* positions of g where /volatile/clas12/<segment> occurs
PlainFormAt(g) ==
    {p \in 1..Len(g) : HasAt(g, p, VolatileClas12)
                        /\ p + 5 <= Len(g) /\ g[p + 5] # "/"}

LundResult(name) == <<<<"LUND_BASE", VolatileClas12 \o name>>, name, TRUE>>

\* /volatile/clas12/users/<name>/...
IsUsersForm(g) ==
    /\ HasAt(g, 1, VolatileClas12Users)
    /\ Len(g) >= 8 /\ g[8] # "/"

\* /volatile/clas12/<name>/...  with <name> other than `users`
IsPlainForm(g) ==
    /\ HasAt(g, 1, VolatileClas12)
    /\ Len(g) >= 6 /\ g[6] # "/"
    /\ SegmentAt(g, 6) # <<"users">>

\* the users-root-only form: /volatile/clas12/users, and no convention match
\* in the generator names anything but `users`
IsUsersRootOnly(g) ==
    /\ StartsWithSegment(g, VolatileClas12, <<"users">>)
    /\ UsersFormAt(g) = {}
    /\ \A p \in PlainFormAt(g) : SegmentAt(g, p + 5) = <<"users">>

\* C3 as stated: both forms yield LundBase(/volatile/clas12/<name>) with owner
\* <name>; the users-root-only form yields no LundBase key and is a PathGen.
C3_UsersRootRuleAsStated ==
    Returned("build_similarity_key") /\ call.generator # None =>
        LET g == call.generator IN
        /\ IsUsersForm(g) => ret = LundResult(SegmentAt(g, 8))
        /\ IsPlainForm(g) => ret = LundResult(SegmentAt(g, 6))
        /\ IsUsersRootOnly(g) =>
              /\ ret[1][1] = "PATH_GEN"
              /\ ret[2] # <<"users">>

\* C3 amended: the users form is searched first, anywhere in the generator; a
\* generator /volatile/clas12/<name>/... yields <name> only when no
\* /volatile/clas12/users/<other> occurs later in it, and <other> otherwise.
C3_UsersRootRule ==
    Returned("build_similarity_key") /\ call.generator # None =>
        LET g == call.generator IN
        /\ IsUsersForm(g) => ret = LundResult(SegmentAt(g, 8))
        /\ IsPlainForm(g) /\ UsersFormAt(g) = {} =>
              ret = LundResult(SegmentAt(g, 6))
        /\ IsPlainForm(g) /\ UsersFormAt(g) # {} =>
              ret = LundResult(SegmentAt(g, Min(UsersFormAt(g)) + 7))
        /\ IsUsersRootOnly(g) =>
              /\ ret[1][1] = "PATH_GEN"
              /\ ret[2] = None
              /\ ret[3] = TRUE

\* /volatile/clas12/users has been classified: a PathGen of /volatile/clas12
C3_Witness ==
    /\ Returned("build_similarity_key")
    /\ call.generator = VolatileClas12 \o <<"users">>
    /\ ret = <<<<"PATH_GEN", <<"/", "volatile", "/", "clas12">>>>, None, TRUE>>

\* the generator matches the shared-resource convention: the search finds a
\* /volatile/clas12/users/<name>, or the first /volatile/clas12/<name> it
\* finds does not name `users`
MatchesConvention(g) ==
    \/ UsersFormAt(g) # {}
    \/ /\ PlainFormAt(g) # {}
       /\ SegmentAt(g, Min(PlainFormAt(g)) + 5) # <<"users">>

\* C4: the three branches are taken in priority order: a non-empty generator
\* that matches the convention gets a LundBase key (is_path true) even when it
\* starts with "/"; PathGen (is_path true) only for generators that start
\* with "/" and do not match; every other non-empty generator gets
\* Gen(generator, options), is_path false, no owner.
C4_BranchPriority ==
    Returned("build_similarity_key")
    /\ call.generator # None /\ call.generator # <<>> =>
        LET g == call.generator IN
        /\ MatchesConvention(g) => ret[1][1] = "LUND_BASE" /\ ret[3] = TRUE
        /\ ret[1][1] = "PATH_GEN" =>
              g[1] = "/" /\ ~MatchesConvention(g) /\ ret[3] = TRUE
        /\ ~MatchesConvention(g) /\ g[1] # "/" =>
              ret = <<<<"GEN", g, call.gen_options>>, None, FALSE>>

\* a generator that both starts with "/" and matches the convention
C4_Witness ==
    /\ Returned("build_similarity_key")
    /\ call.generator = <<"/", "x">> \o VolatileClas12 \o <<"alice">>
    /\ ret[1] = <<"LUND_BASE", VolatileClas12 \o <<"alice">>>>
    /\ ret[3] = TRUE

\* C5: for a generator that starts with "/" and does not match the
\* convention, the PathGen directory is the text before the final "/", and
\* the whole generator when its only "/" is the first character; it is never
\* empty.
C5_PathDirectory ==
    Returned("build_similarity_key") /\ call.generator # None
    /\ startswith(call.generator, <<"/">>) /\ ~MatchesConvention(call.generator) =>
        LET g == call.generator
            d == ret[1][2]
        IN  /\ ret[1][1] = "PATH_GEN"
            /\ d # <<>>
            /\ IF \E k \in 2..Len(g) : g[k] = "/"
               THEN \E tail \in {SubSeq(g, k, Len(g)) : k \in 1..(Len(g) + 1)} :
                       /\ \A k \in 1..Len(tail) : tail[k] # "/"
                       /\ g = d \o <<"/">> \o tail
               ELSE d = g

\* "/x": the only "/" is at position 0, the directory is the whole generator
C5_Witness ==
    /\ Returned("build_similarity_key")
    /\ call.generator = <<"/", "x">>
    /\ ret[1] = <<"PATH_GEN", <<"/", "x">>>>

\* C6 as stated: the key depends on the generator alone: any other options
\* string gives the same key.
C6_KeyOfGeneratorAloneAsStated ==
    Returned("build_similarity_key") =>
        \A o \in OptionArgs :
            build_similarity_key(call.generator, o)[1] = ret[1]

\* C6 amended: LundBase and PathGen keys (and "no key") depend on the
\* generator alone; a Gen key carries the options string, so two calls with
\* the same bare generator give the same key iff their options are equal.
C6_KeyOfGeneratorAlone ==
    Returned("build_similarity_key") =>
        \A o \in OptionArgs :
            LET other == build_similarity_key(call.generator, o) IN
            /\ other[3] = ret[3]
            /\ other[2] = ret[2]
            /\ (ret[3] \/ ret[1] = None) => other[1] = ret[1]
            /\ (~ret[3] /\ ret[1] # None) =>
                  /\ ret[1] = <<"GEN", call.generator, call.gen_options>>
                  /\ (other[1] = ret[1] <=> o = call.gen_options)

\* a path generator called with non-empty options: the key has no options
C6_Witness ==
    /\ Returned("build_similarity_key")
    /\ call.generator = <<"/", "x", "/", "x">>
    /\ call.gen_options = <<"--q">>
    /\ ret[1] = <<"PATH_GEN", <<"/", "x">>>>

----------------------------------------------------------------------------
(* Properties of the accumulation loop *)

\* the rows the loop has consumed
Processed == 1..ridx

\* the functions of the loop body tabulated over the steering cards
Cards == {r.scard_text : r \in Records \cup ReportRecords}

ParsedOf == [c \in Cards |-> parse_generator_and_options(c)]

KeyOf == [c \in Cards |-> build_similarity_key(ParsedOf[c][1], ParsedOf[c][2])]

JobsOf == [c \in Cards |-> estimate_jobs(ParsedOf[c][1], c)]

RowParsed(i) == ParsedOf[rows[i].scard_text]

RowKey(i) == KeyOf[rows[i].scard_text]

\* all (group, position) pairs of the grouped submissions
Members ==
    {m \in (1..Len(groups)) \X (1..ridx) : m[2] <= Len(groups[m[1]].subs)}

Sub(m) == groups[m[1]].subs[m[2]]

\* the key of a grouped submission, from the generator and options it stores
SubKey(sub) ==
    LET C == {c \in Cards : ParsedOf[c] = <<sub.generator, sub.gen_options>>}
    IN  IF C # {} THEN KeyOf[CHOOSE c \in C : TRUE][1]
        ELSE build_similarity_key(sub.generator, sub.gen_options)[1]

\* structural equality of two classification keys
KeyEq(ka, kb) ==
    /\ ka[1] = kb[1]
    /\ IF ka[1] = "GEN"
       THEN Len(ka) = 3 /\ Len(kb) = 3 /\ ka[2] = kb[2] /\ ka[3] = kb[3]
       ELSE Len(ka) = 2 /\ Len(kb) = 2 /\ ka[2] = kb[2]

\* the submission the loop builds from row i
RowSub(i) ==
    [user |-> rows[i].user,
     client_time |-> rows[i].client_time,
     jobs |-> JobsOf[rows[i].scard_text],
     generator |-> RowParsed(i)[1],
     gen_options |-> RowParsed(i)[2],
     lund_username |-> RowKey(i)[2]]

\* row i gets a key and is not removed by the empty-options filter
Survives(i) ==
    /\ RowKey(i)[1] # None
    /\ ~(filter_empty_options /\ RowKey(i)[1][1] = "GEN" /\ RowParsed(i)[2] = <<>>)

\* the elements of seq[1..n] whose index is marked in keep, in order
RECURSIVE Pick(_, _, _)
Pick(seq, keep, n) ==
    IF n = 0 THEN <<>>
    ELSE IF keep[n] THEN Append(Pick(seq, keep, n - 1), seq[n])
    ELSE Pick(seq, keep, n - 1)

AfterAccumulation == pc = "accumulate" /\ ridx = Len(rows)

\* C7: after the accumulation loop two surviving records are in the same
\* group iff their keys are structurally equal (Gen: name and options;
\* LundBase/PathGen: the path string, whatever the options); every surviving
\* record is a member of exactly one group and no two groups share a key.
C7_GroupsAreKeyClasses ==
    AfterAccumulation =>
        LET sub == [i \in Processed |-> RowSub(i)]
            key == [i \in Processed |-> RowKey(i)[1]]
            alive == [i \in Processed |-> Survives(i)]
            mkey == [m \in Members |-> SubKey(Sub(m))]
        IN  /\ \A m, n \in Members : (m[1] = n[1]) <=> KeyEq(mkey[m], mkey[n])
            /\ \A i, j \in 1..Len(groups) :
                  KeyEq(groups[i].key, groups[j].key) => i = j
            /\ \A g \in 1..Len(groups) :
                  groups[g].subs =
                      Pick(sub, [i \in Processed |->
                                    alive[i] /\ KeyEq(key[i], groups[g].key)], ridx)
            /\ \A i \in Processed : alive[i] =>
                  Cardinality({g \in 1..Len(groups) : KeyEq(key[i], groups[g].key)}) = 1

\* the loop is over and one group holds two submissions of the same
\* LundBase key with different options, another group a different key
C7_Witness ==
    /\ AfterAccumulation
    /\ Len(groups) >= 2
    /\ \E g \in 1..Len(groups) :
          /\ groups[g].key[1] = "LUND_BASE"
          /\ Len(groups[g].subs) = 2
          /\ groups[g].subs[1].gen_options # groups[g].subs[2].gen_options

\* the descriptor has a `generator:` directive followed by a token
HasGeneratorDirective(t) ==
    \E p, q \in 1..Len(t) :
        /\ p < q /\ t[p] = "generator:" /\ t[q] \notin WS
        /\ \A k \in (p + 1)..(q - 1) : t[k] \in WS

\* the descriptor has a token followed by `genOptions:`
HasFallbackToken(t) ==
    \E a, p \in 1..Len(t) :
        /\ a < p /\ t[p] = "genOptions:" /\ t[a] \notin WS
        /\ \A k \in (a + 1)..(p - 1) : t[k] \in WS

NonText(t) == t = None

\* the descriptor is absent or non-text, or no generator can be resolved
NoGeneratorText(t) ==
    NonText(t) \/ (~HasGeneratorDirective(t) /\ ~HasFallbackToken(t))

\* the loop is about to consume a row without generator
AtNoGeneratorRow ==
    /\ pc = "accumulate" /\ ridx < Len(rows)
    /\ NoGeneratorText(rows[ridx + 1].scard_text)

\* the step skips the row and counts it once as skipped-no-generator
SkipsAsNoGenerator ==
    /\ RowKey(ridx + 1) = <<None, None, FALSE>>
    /\ groups' = groups
    /\ kept_rows' = kept_rows
    /\ skipped_empty_options' = skipped_empty_options
    /\ skipped_no_generator' = skipped_no_generator + 1
    /\ ridx' = ridx + 1
    /\ pc' = "accumulate"

\* C8 as stated: a record whose descriptor is absent or non-text, or from
\* which no generator can be resolved, is parsed to empty generator and
\* options, gets no key, joins no group and increments the
\* skipped-no-generator counter exactly once.
C8_NoGeneratorSkippedAsStated ==
    [][AtNoGeneratorRow =>
          /\ RowParsed(ridx + 1) = <<EmptyStr, EmptyStr>>
          /\ SkipsAsNoGenerator]_vars

\* C8 amended: an absent or non-text descriptor is parsed to empty generator
\* and options; a descriptor without resolvable generator is parsed to an
\* empty generator, its options being whatever an options directive gives;
\* either record gets no key, joins no group and increments the
\* skipped-no-generator counter exactly once.
C8_NoGeneratorSkipped ==
    [][AtNoGeneratorRow =>
          /\ RowParsed(ridx + 1)[1] = EmptyStr
          /\ NonText(rows[ridx + 1].scard_text) =>
                RowParsed(ridx + 1) = <<EmptyStr, EmptyStr>>
          /\ SkipsAsNoGenerator]_vars

\* a row with options but no generator, then an absent descriptor, have been
\* consumed: two skips, no group
C8_Witness ==
    /\ pc = "accumulate" /\ ridx = 2
    /\ rows[1].scard_text = CardNoGenerator
    /\ rows[2].scard_text = None
    /\ skipped_no_generator = 2
    /\ groups = <<>>
    /\ kept_rows = 0

\* C9: with filter_empty_options every record with a Gen key and empty
\* options is excluded from all groups and counted as skipped-empty-options;
\* a record with a PathGen or LundBase key is never excluded by the flag,
\* whatever its options; without the flag no record is excluded for empty
\* options.  The flag is the negation of --no_filter_empty_options.
C9_EmptyOptionsFilter ==
    AfterAccumulation =>
        LET key == [i \in Processed |-> RowKey(i)[1]]
            opts == [i \in Processed |-> RowParsed(i)[2]]
            BareEmpty == {i \in Processed : key[i][1] = "GEN" /\ opts[i] = <<>>}
            PathKind == {i \in Processed : key[i][1] \in {"PATH_GEN", "LUND_BASE"}}
            Keyed == {i \in Processed : key[i] # None}
            BareEmptyMembers ==
                {m \in Members : groups[m[1]].key[1] = "GEN"
                                   /\ Sub(m).gen_options = <<>>}
            PathMembers ==
                {m \in Members : groups[m[1]].key[1] \in {"PATH_GEN", "LUND_BASE"}}
        IN  /\ filter_empty_options = ~no_filter_empty_options
            /\ Cardinality(PathMembers) = Cardinality(PathKind)
            /\ filter_empty_options =>
                  /\ BareEmptyMembers = {}
                  /\ skipped_empty_options = Cardinality(BareEmpty)
                  /\ kept_rows = Cardinality(Keyed) - Cardinality(BareEmpty)
            /\ ~filter_empty_options =>
                  /\ Cardinality(BareEmptyMembers) = Cardinality(BareEmpty)
                  /\ skipped_empty_options = 0
                  /\ kept_rows = Cardinality(Keyed)

\* the filter is on: a bare generator without options was skipped while a
\* path generator without options was grouped
C9_Witness ==
    /\ AfterAccumulation
    /\ filter_empty_options
    /\ skipped_empty_options = 1
    /\ \E m \in Members :
          groups[m[1]].key[1] = "PATH_GEN" /\ Sub(m).gen_options = <<>>

----------------------------------------------------------------------------
(* Properties of the post-filter loop *)

\* group g of the accumulation is among the reported groups
Reported(g) ==
    \E r \in 1..Len(repeating_groups) :
        /\ repeating_groups[r].key = groups[g].key
        /\ repeating_groups[r].subs = groups[g].subs

Submitters(g) == {groups[g].subs[i].user : i \in 1..Len(groups[g].subs)}

\* the owner named by a base path /volatile/clas12/<owner>
OwnerOfBase(base) == SubSeq(base, Len(VolatileClas12) + 1, Len(base))

\* C10: a LundBase group is reported iff at least one of its submitters
\* differs from the owner derived from its base path, whatever its
\* submission count and whatever include_single_user_groups.
C10_LundReportedIffForeign ==
    pc = "filtered" =>
        \A g \in 1..Len(groups) :
            groups[g].key[1] = "LUND_BASE" =>
                (Reported(g) <=>
                    \E u \in Submitters(g) : u # OwnerOfBase(groups[g].key[2]))

\* a single submission by a foreign user is reported without the
\* single-submitter flag
C10_Witness ==
    /\ pc = "filtered"
    /\ ~include_single_user_groups
    /\ \E g \in 1..Len(groups) :
          /\ groups[g].key = <<"LUND_BASE", VolatileClas12 \o Alice>>
          /\ Len(groups[g].subs) = 1
          /\ groups[g].subs[1].user = Bob
          /\ Reported(g)

\* C11: a PathGen or Gen group is reported iff it has at least two
\* submissions and, unless include_single_user_groups is set, at least two
\* distinct submitters.
C11_RepeatReportedIffTwo ==
    pc = "filtered" =>
        \A g \in 1..Len(groups) :
            groups[g].key[1] \in {"PATH_GEN", "GEN"} =>
                (Reported(g) <=>
                    /\ Len(groups[g].subs) >= 2
                    /\ \/ include_single_user_groups
                       \/ Cardinality(Submitters(g)) >= 2)

\* two submissions by one submitter are reported under the flag
C11_Witness ==
    /\ pc = "filtered"
    /\ include_single_user_groups
    /\ \E g \in 1..Len(groups) :
          /\ groups[g].key[1] \in {"PATH_GEN", "GEN"}
          /\ Len(groups[g].subs) = 2
          /\ Cardinality(Submitters(g)) = 1
          /\ Reported(g)

----------------------------------------------------------------------------
(* Properties of the ranking and of the reporting loop *)

\* the first row of the input whose key is k
FirstRow(k) == Min({i \in 1..Len(rows) : RowKey(i)[1] = k})

\* C12: the ranking orders the reported groups by descending total of
\* estimated jobs, groups of equal total stay in the order in which their
\* keys first appeared in the input, and the ranked list holds exactly the
\* groups of the list before the ranking.
C12_RankedByTotalJobs ==
    [][SortGroups =>
        LET a == repeating_groups
            b == repeating_groups'
        IN  /\ Len(b) = Len(a)
            /\ \A i \in 1..Len(b) :
                  \E j \in 1..Len(a) : a[j].key = b[i].key /\ a[j] = b[i]
            /\ \A i, j \in 1..Len(b) :
                  i < j =>
                     /\ b[i].key # b[j].key
                     /\ \/ group_total_jobs(b[i]) > group_total_jobs(b[j])
                        \/ /\ group_total_jobs(b[i]) = group_total_jobs(b[j])
                           /\ FirstRow(b[i].key) < FirstRow(b[j].key)]_vars

\* three ranked groups, two of them with equal totals, and a group that the
\* ranking moved ahead of a group discovered before it
C12_Witness ==
    /\ pc = "report"
    /\ Len(repeating_groups) = 3
    /\ \E i, j \in 1..3 :
          /\ i < j
          /\ group_total_jobs(repeating_groups[i])
                = group_total_jobs(repeating_groups[j])
    /\ \E i, j \in 1..3 :
          /\ i < j
          /\ FirstRow(repeating_groups[i].key) > FirstRow(repeating_groups[j].key)

\* the groups of two lists agree position by position
SameGroups(a, b) ==
    /\ Len(a) = Len(b)
    /\ \A i \in 1..Len(a) : a[i].key = b[i].key /\ a[i] = b[i]

\* C13: a second invocation over the same rows and flags reports the same
\* groups with the same members in the same order as the first one, whatever
\* the first one left behind.
C13_SecondRunSameReport ==
    (run = 2 /\ pc = "done") =>
        /\ SameGroups(first_run.repeating_groups, repeating_groups)
        /\ SameGroups(first_run.report, report)

\* the second invocation has ranked and reported two groups or more
C13_Witness ==
    /\ run = 2
    /\ pc = "done"
    /\ Len(report) >= 2
    /\ Len(first_run.report) >= 2
    /\ \E i \in 1..Len(report) : Len(repeating_groups[i].subs) >= 2

\* the submissions counted by a per-user breakdown
RECURSIVE SumSubs(_)
SumSubs(per_user) ==
    IF per_user = <<>> THEN 0 ELSE per_user[1].subs + SumSubs(Tail(per_user))

\* the jobs counted by a per-user breakdown
RECURSIVE SumJobs(_)
SumJobs(per_user) ==
    IF per_user = <<>> THEN 0 ELSE per_user[1].jobs + SumJobs(Tail(per_user))

\* C14: in every reported block the per-submitter submission counts sum to
\* the total submission count, the per-submitter job sums sum to the total
\* of estimated jobs, the submitters of the breakdown are the distinct
\* submitters listed, and the earliest and latest dates of the group are the
\* minimum and the maximum of the per-submitter earliest and latest dates.
C14_AggregationConsistent ==
    \A n \in 1..Len(report) :
        LET b == report[n]
            E == 1..Len(b.per_user)
        IN  /\ SumSubs(b.per_user) = b.total_submissions
            /\ SumJobs(b.per_user) = b.total_jobs
            /\ {b.per_user[i].user : i \in E}
                  = {b.unique_users[i] : i \in 1..Len(b.unique_users)}
            /\ Len(b.per_user) = Len(b.unique_users)
            /\ \E i \in E : b.per_user[i].min_t = b.min_t
            /\ \A i \in E : ~before(b.per_user[i].min_t, b.min_t)
            /\ \E i \in E : b.per_user[i].max_t = b.max_t
            /\ \A i \in E : ~before(b.max_t, b.per_user[i].max_t)

\* a block of two submitters, one of them with submissions on two dates
C14_Witness ==
    \E n \in 1..Len(report) :
        LET b == report[n] IN
        /\ b.total_submissions = 3
        /\ Len(b.per_user) = 2
        /\ b.min_t # b.max_t
        /\ \E i \in 1..2 :
              /\ b.per_user[i].subs = 2
              /\ b.per_user[i].min_t # b.per_user[i].max_t
              /\ b.per_user[i].jobs < b.total_jobs

----------------------------------------------------------------------------
(* Properties of parse_generator_and_options *)

\* the token that follows the first `generator:` directive followed by one
DirectiveToken(t) ==
    LET P == {p \in 1..Len(t) :
                 /\ t[p] = "generator:"
                 /\ \E q \in (p + 1)..Len(t) :
                       /\ t[q] \notin WS
                       /\ \A k \in (p + 1)..(q - 1) : t[k] \in WS}
        p == Min(P)
        q == Min({k \in (p + 1)..Len(t) : t[k] \notin WS})
        e == Max({k \in q..Len(t) : \A i \in q..k : t[i] \notin WS})
    IN  SubSeq(t, q, e)

\* positions of a `genOptions:` that directly follows a non-blank lexeme
GluedOptions(t) ==
    {p \in 2..Len(t) : t[p] = "genOptions:" /\ t[p - 1] \notin WS}

\* the token directly followed by `genOptions:`: the text from the start of
\* the first whitespace-delimited word with a glued `genOptions:` up to the
\* last `genOptions:` glued in that word
GluedToken(t) ==
    LET first == Min(GluedOptions(t))
        a == Min({k \in 1..first : \A i \in k..first : t[i] \notin WS})
        r == Max({k \in first..Len(t) : \A i \in first..k : t[i] \notin WS})
        p == Max({k \in GluedOptions(t) : k <= r})
    IN  SubSeq(t, a, p - 1)

\* C16: a `generator:` directive followed by a token gives that token; without
\* such a directive the generator is the token directly followed by
\* `genOptions:`, no whitespace in between; with neither pattern the
\* generator is empty.
C16_GeneratorPriority ==
    Returned("parse_generator_and_options") =>
        LET t == IF call.scard_text = None THEN <<>> ELSE call.scard_text
        IN  IF HasGeneratorDirective(t) THEN ret[1] = DirectiveToken(t)
            ELSE IF GluedOptions(t) # {} THEN ret[1] = GluedToken(t)
            ELSE ret[1] = <<>>

----------------------------------------------------------------------------
(* Accounting of the rows *)

\* the number of grouped submissions
RECURSIVE GroupedCount(_)
GroupedCount(gs) ==
    IF gs = <<>> THEN 0 ELSE Len(gs[1].subs) + GroupedCount(Tail(gs))

\* C17: every row the loop has consumed is counted once, as skipped for no
\* generator, as skipped for empty options or as kept, and the kept count is
\* the sum of the sizes of the groups; once the loop is over the three
\* counters add up to the number of rows.
C17_RowsAccounted ==
    pc \in {"accumulate", "postfilter", "filtered"} =>
        /\ ridx = skipped_no_generator + skipped_empty_options + kept_rows
        /\ kept_rows = GroupedCount(groups)
        /\ pc # "accumulate" => ridx = Len(rows)

\* a run of three rows: one skipped, two kept in one group
C17_Witness ==
    /\ pc = "filtered"
    /\ skipped_no_generator + skipped_empty_options >= 1
    /\ kept_rows = 2
    /\ Len(groups) = 1
    /\ Len(rows) = 3

----------------------------------------------------------------------------
(* The owner of a LUND base in the classifier and in the post-filter *)

\* the entries of repeating_groups made from group g
EntriesOf(g) ==
    {r \in 1..Len(repeating_groups) : repeating_groups[r].key = groups[g].key}

\* C18: in every LundBase group all members carry the same owner, derived by
\* the classifier; that owner is a user name (not absent), the post-filter
\* recomputes the same owner from the base path of the key, and the foreign
\* submitters it records are the submitters of the group other than that
\* owner (the group is dropped when there is none).
C18_BaseOwnerAgrees ==
    pc = "filtered" =>
        \A g \in 1..Len(groups) :
            groups[g].key[1] = "LUND_BASE" =>
                LET subs == groups[g].subs
                    owner == subs[1].lund_username
                    foreign == Submitters(g) \ {owner}
                IN  /\ owner # None
                    /\ owner # <<>>
                    /\ \A i \in 1..Len(subs) : subs[i].lund_username = owner
                    /\ groups[g].key[2] = VolatileClas12 \o owner
                    /\ IF foreign = {} THEN EntriesOf(g) = {}
                       ELSE /\ Cardinality(EntriesOf(g)) = 1
                            /\ \A r \in EntriesOf(g) :
                                  /\ repeating_groups[r].base_owner = owner
                                  /\ repeating_groups[r].foreign_users = foreign

\* a reported group of the base of x, whose member names a file under
\* alice's directory, next to a reported group with two submitters
C18_Witness ==
    /\ pc = "filtered"
    /\ \E r \in 1..Len(repeating_groups) :
          /\ repeating_groups[r].key = <<"LUND_BASE", VolatileClas12 \o <<"x">>>>
          /\ repeating_groups[r].base_owner = <<"x">>
          /\ repeating_groups[r].foreign_users = {Alice}
    /\ \E r \in 1..Len(repeating_groups) :
          /\ repeating_groups[r].key = <<"LUND_BASE", VolatileClas12 \o Alice>>
          /\ Len(repeating_groups[r].subs) = 2
          /\ repeating_groups[r].foreign_users = {Bob}

----------------------------------------------------------------------------
(* Properties of the queue poller *)

\* the ads of cluster c, by position in the answer of the schedd
ClusterAds(c) == {i \in 1..Len(ads) : ads[i].ClusterId = c}

\* the ads of cluster c whose JobStatus is one of the codes
InQueue(c, codes) ==
    Cardinality({i \in ClusterAds(c) : ads[i].JobStatus \in {num(k) : k \in codes}})

\* the ads of cluster c that carry TotalSubmitProcs
WithTotal(c) == {i \in ClusterAds(c) : ads[i].TotalSubmitProcs # None}

\* the four counters of a printed row are the counts of the ads by status
CountsAsStated(r) ==
    /\ r.run = InQueue(r.cluster_id, {2})
    /\ r.idle = InQueue(r.cluster_id, {1})
    /\ r.hold = InQueue(r.cluster_id, {5})
    /\ r.run + r.idle + r.hold + InQueue(r.cluster_id, {0, 6, 7})
          = Cardinality(ClusterAds(r.cluster_id)) - InQueue(r.cluster_id, {3, 4})

====
